---- MODULE Spec2Model ----
(***************************************************************************)
(* A model of the inteligent-rss ingestion / evaluation pipeline:          *)
(*   - the SQLite store            (src/src/database/RSSDatabase.py)       *)
(*   - the script orchestrator     (src/src/main.py)                       *)
(*   - the RSSConsumer orchestrator and scheduler (src/src/rss_consumer.py)*)
(*   - the LLM response parser     (src/src/llm_processor.py)              *)
(*   - the query ledger the script calls (get_queries / resolve_query),    *)
(*     which has no definition in the sources and is taken from the        *)
(*     written specification.                                              *)
(* Python exceptions are modelled as explicit outcomes of the operators.   *)
(***************************************************************************)
EXTENDS Integers, Sequences, FiniteSets, TLC

(***************************************************************************)
(* Bounds of the model                                                     *)
(***************************************************************************)
MaxBatch == 2

Today == 40

DefaultDaysOld == 30

(***************************************************************************)
(* Values                                                                  *)
(***************************************************************************)
None == "None"

Links == {"l1", "l2"}

Guids == {"g1", "g2"}

SourceNames == {"OTS RSS Feed", "ORF News RSS Feed"}

\* An article (a link) carries one publication day and one title.
PublishedOf(link) == IF link = "l1" THEN 5 ELSE 39

TitleOf(link) == IF link = "l1" THEN "t1" ELSE "t2"

\* RSSItem of base_source.py: a Python object with attribute access.
RSSItem(title, link, published, source, guid) ==
    [form |-> "RSSItem", title |-> title, link |-> link,
     published |-> published, source |-> source, guid |-> guid]

Items ==
    {RSSItem(TitleOf(l), l, PublishedOf(l), s, g) :
        l \in Links, s \in SourceNames, g \in Guids}

RECURSIVE SeqsUpTo(_, _)
SeqsUpTo(S, n) ==
    IF n = 0 THEN {<<>>}
    ELSE LET shorter == SeqsUpTo(S, n - 1)
         IN  shorter \cup {Append(q, x) : q \in {t \in shorter : Len(t) = n - 1}, x \in S}

Batches == SeqsUpTo(Items, MaxBatch)

(***************************************************************************)
(* The schema created by RSSDatabase._create_tables                        *)
(***************************************************************************)
RssItemsColumns ==
    {"id", "title", "link", "description", "content", "published", "source"}

LlmResultsColumns ==
    {"id", "item_id", "item_title", "item_source", "query", "relevance_score",
     "relevance", "explanation", "key_information", "summary", "llm_response",
     "processed_at", "created_at"}

\* Columns declared NOT NULL without a default.
RssItemsNotNull == {"title", "link", "published", "source"}

VARIABLES
    rss_items,      \* table rss_items: set of rows [id, title, link, published, source]
    rss_seq,        \* AUTOINCREMENT counter of rss_items
    llm_results,    \* table llm_results: set of rows
    guid_of,        \* history: id of a stored rss_items row -> guid of the item it was inserted from
    last_call,      \* history: the last store operation called, what it saw and what it returned
    response,       \* the text the LLM generated, a sequence of tokens
    parsed,         \* what _parse_llm_response returned for it
    sources,        \* table sources: set of rows [id, name, url, last_consumed]
    sources_seq,    \* AUTOINCREMENT counter of sources
    queries,        \* the query ledger: set of rows [id, query, resolved, resolved_by]
    resolves,       \* history: the resolve_query calls made, with what each returned
    feeds,          \* what each source's feed holds during the current run
    consumer_pc,    \* RSSConsumer.consume_all_sources: "idle", "loop" or "returned"
    consumer_idx,   \* the position of its loop in self.sources
    feed_entries,   \* what each of the consumer's sources finds when it fetches
    source_stats,   \* its source_stats dict: set of entries, one per source name
    total_items,    \* its total_items counter
    loc_llm_results,      \* its local llm_results: the length of the list, or unbound
    loc_stored_llm_count, \* its local stored_llm_count: a number, or unbound
    llm,            \* LLMProcessor.llm: TRUE when the model was loaded, FALSE for None
    work,           \* the items given to process_items, each with what the LLM does for it
    work_idx,       \* the position of process_items' loop
    processed,      \* the results list process_items builds
    processor_pc,   \* "idle", "loop", "returned" or "stored"
    max_runs,       \* run_scheduled_consumption's max_runs: [given, n], given = FALSE for None
    run_count,      \* its run_count
    scheduler_pc,   \* "idle", "test", "run", "sleep" or "returned"
    sleeps,         \* history: the number of time.sleep calls it has made
    interrupted,    \* history: a KeyboardInterrupt has arrived
    errored_runs,   \* history: the number of its runs that ended with an error entry
    conn_pc,        \* per connection inside store_rss_items: "idle", "select", "insert", "commit", "done"
    conn_item,      \* the item both connections are given
    conn_pending,   \* per connection: the rows it has inserted and not yet committed
    conn_count,     \* per connection: stored_count
    write_lock,     \* the connection that holds the database's write lock, 0 for none
    worker_pc,      \* per worker running the script's loop body: "idle", "get_queries", "pairs", "done", "crashed"
    worker_item,    \* per worker: the item it fetched
    worker_open,    \* per worker: the open_queries list it read
    worker_idx,     \* per worker: the position of its loop in open_queries
    db_tables,      \* the tables that exist in the database file (none: no file yet)
    clock,          \* the day datetime.now() returns
    cli_pc,         \* position of main() of src/main.py: "start", "scheduled"
    cli_cleanup,    \* args.cleanup: days, 0 for no cleanup
    cleanups,       \* history: the value of run_count at each cleanup_old_data call
    pc,             \* the script's position
    runs,           \* number of script runs started
    src_idx,        \* index of the source being processed
    items,          \* items = source.consume()
    open_queries,   \* open_queries = database.get_queries(False)
    pair_idx,       \* position in itertools.product(items, open_queries)
    evals           \* history: the pairs the current run evaluated, with the verdicts

storeVars == <<rss_items, rss_seq, llm_results, guid_of, last_call>>

parserVars == <<response, parsed>>

sourceVars == <<sources, sources_seq>>

ledgerVars == <<queries, resolves>>

scriptVars == <<feeds, pc, runs, src_idx, items, open_queries, pair_idx, evals>>

consumerVars ==
    <<consumer_pc, consumer_idx, feed_entries, source_stats, total_items,
      loc_llm_results, loc_stored_llm_count>>

processorVars == <<llm, work, work_idx, processed, processor_pc>>

schedulerVars == <<max_runs, run_count, scheduler_pc, sleeps, interrupted, errored_runs>>

connVars == <<conn_pc, conn_item, conn_pending, conn_count, write_lock>>

workerVars == <<worker_pc, worker_item, worker_open, worker_idx>>

fileVars == <<db_tables, clock>>

cliVars == <<cli_pc, cli_cleanup, cleanups>>

vars ==
    <<rss_items, rss_seq, llm_results, guid_of, last_call, response, parsed,
      sources, sources_seq, queries, resolves,
      feeds, pc, runs, src_idx, items, open_queries, pair_idx, evals,
      consumer_pc, consumer_idx, feed_entries, source_stats, total_items,
      loc_llm_results, loc_stored_llm_count,
      llm, work, work_idx, processed, processor_pc,
      max_runs, run_count, scheduler_pc, sleeps, interrupted, errored_runs,
      conn_pc, conn_item, conn_pending, conn_count, write_lock,
      worker_pc, worker_item, worker_open, worker_idx,
      db_tables, clock,
      cli_pc, cli_cleanup, cleanups>>

(***************************************************************************)
(* RSSDatabase.store_rss_items                                             *)
(***************************************************************************)
RowOf(id, item) ==
    [id |-> id, title |-> item.title, link |-> item.link,
     published |-> item.published, source |-> item.source]

\* Whether column c of the row to insert is bound to Python's None (a missing
\* publication day is written -1, the other columns hold strings).
BoundToNone(item, c) ==
    IF c = "published" THEN item.published = -1 ELSE item[c] = None

\* sqlite3.IntegrityError: a NOT NULL column is bound to None.
NotNullViolated(item) == \E c \in RssItemsNotNull : BoundToNone(item, c)

\* A store that leaves deduplication to INSERT OR REPLACE: no lookup is made.
ExistsNoLookup(rows, item) == FALSE

\* A lookup on the link alone, whatever the source of the row.
ExistsByLink(rows, item) == \E r \in rows : r.link = item.link

\* SELECT id FROM rss_items WHERE link = ? AND source = ?
Exists(rows, item) == \E r \in rows : r.link = item.link /\ r.source = item.source

\* The for-loop of store_rss_items from item i on, inside one connection.
\* raised = TRUE: an exception other than sqlite3.Error left the loop.
RECURSIVE StoreItemsLoop(_, _, _, _, _, _)
StoreItemsLoop(batch, i, rows, seq, ghost, count) ==
    IF i > Len(batch)
    THEN [raised |-> FALSE, stored_count |-> count, rows |-> rows, seq |-> seq, ghost |-> ghost]
    ELSE LET item == batch[i] IN
         IF item.form # "RSSItem"
         THEN \* item.link on a dict: AttributeError, not caught by "except sqlite3.Error"
              [raised |-> TRUE, stored_count |-> count, rows |-> rows, seq |-> seq, ghost |-> ghost]
         ELSE IF Exists(rows, item)
         THEN StoreItemsLoop(batch, i + 1, rows, seq, ghost, count)
         ELSE IF NotNullViolated(item)
         THEN StoreItemsLoop(batch, i + 1, rows, seq, ghost, count)
         ELSE StoreItemsLoop(batch, i + 1, rows \cup {RowOf(seq + 1, item)}, seq + 1,
                             ghost @@ ((seq + 1) :> item.guid), count + 1)

\* store_rss_items(items) on the store (rows, seq, ghost).  An exception leaving the
\* "with sqlite3.connect(...)" block rolls the transaction back.
store_rss_items(batch, rows, seq, ghost) ==
    LET r == StoreItemsLoop(batch, 1, rows, seq, ghost, 0) IN
    IF r.raised
    THEN [raised |-> TRUE, stored_count |-> 0, rows |-> rows, seq |-> seq, ghost |-> ghost]
    ELSE r

(***************************************************************************)
(* RSSDatabase.store_llm_results                                           *)
(***************************************************************************)
\* The columns the INSERT statement of store_llm_results names.
LlmInsertColumns ==
    {"item_guid", "item_title", "item_source", "query", "relevance_score",
     "relevance", "explanation", "key_information", "summary", "llm_response",
     "processed_at"}

\* NOT NULL columns of llm_results that have no default value.
LlmResultsNotNull ==
    {"item_id", "item_title", "item_source", "query", "relevance_score",
     "relevance", "processed_at"}

\* An INSERT that is accepted whatever the table's columns are.
LlmInsertUnchecked == TRUE

\* The INSERT succeeds only if every named column exists and every NOT NULL
\* column without a default is given; otherwise sqlite3.Error is raised.
LlmInsertAccepted ==
    /\ LlmInsertColumns \subseteq LlmResultsColumns
    /\ LlmResultsNotNull \subseteq LlmInsertColumns

RECURSIVE StoreResultsLoop(_, _, _, _)
StoreResultsLoop(results, i, rows, count) ==
    IF i > Len(results)
    THEN [stored_count |-> count, rows |-> rows]
    ELSE IF LlmInsertAccepted
         THEN StoreResultsLoop(results, i + 1,
                               rows \cup {[id |-> Cardinality(rows) + 1, result |-> results[i]]},
                               count + 1)
         ELSE \* except sqlite3.Error: print, continue
              StoreResultsLoop(results, i + 1, rows, count)

store_llm_results(results, rows) == StoreResultsLoop(results, 1, rows, 0)

(***************************************************************************)
(* RSSDatabase.cleanup_old_items                                           *)
(***************************************************************************)
\* datetime(published) < datetime('now', '-days days')
Stale(row, days) == row.published < Today - days

\* The columns the first DELETE statement names: llm_results.item_guid, and
\* guid and published of rss_items.
CleanupColumnsExist ==
    /\ "guid" \in RssItemsColumns
    /\ "published" \in RssItemsColumns
    /\ "item_guid" \in LlmResultsColumns

\* The column the second DELETE statement names: published of rss_items.
SecondDeleteColumnsExist == "published" \in RssItemsColumns

\* A cleanup that empties rss_items.
cleanup_all_items(days, rows, results, ghost) ==
    [failed |-> FALSE, rows |-> {}, results |-> results]

\* cleanup_old_items(days_old): the first statement raises sqlite3.OperationalError
\* when a column it names is missing; the except clause prints and nothing is
\* deleted.  The except clause sits inside the "with" block, so the block ends
\* normally and commits what ran before the statement that raised.
cleanup_old_items(days, rows, results, ghost) ==
    IF CleanupColumnsExist
    THEN LET stale == {r \in rows : Stale(r, days)}
             kept == {x \in results : x.result.item_guid \notin {ghost[r.id] : r \in stale}}
         IN  IF SecondDeleteColumnsExist
             THEN [failed |-> FALSE, rows |-> rows \ stale, results |-> kept]
             ELSE [failed |-> TRUE, rows |-> rows, results |-> kept]
    ELSE [failed |-> TRUE, rows |-> rows, results |-> results]

(***************************************************************************)
(* The store before anything is stored, and the record of the last call    *)
(***************************************************************************)
NoCall ==
    [op |-> "none", single |-> <<>>, days |-> 0, ret |-> 0, failed |-> FALSE,
     count_before |-> 0, existed |-> FALSE,
     repeat |-> FALSE, prev_ret |-> 0, prev_grew |-> 0, prev_existed |-> FALSE,
     items_before |-> {}, results_before |-> {}, offered |-> <<>>]

EmptyStore ==
    /\ rss_items = {}
    /\ rss_seq = 0
    /\ llm_results = {}
    /\ guid_of = <<>>
    /\ last_call = NoCall

(***************************************************************************)
(* LLMProcessor._parse_llm_response                                        *)
(* A text is a sequence of tokens: a field label word, a digit, a colon,   *)
(* a blank, a minus sign or a line break.                                  *)
(***************************************************************************)
MaxLen == 5

LabelWords == {"Relevance Score", "Relevance", "Explanation", "Key Information", "Summary"}

Digits == {"0", "1", "5"}

Tokens == LabelWords \cup Digits \cup {":", " ", "-", "\n"}

\* The responses of at most n tokens.
Responses(n) == SeqsUpTo(Tokens, n)

\* str.split(sep): the pieces of text between the separators, in order.
RECURSIVE Split(_, _)
Split(text, sep) ==
    IF \A i \in 1..Len(text) : text[i] # sep
    THEN <<text>>
    ELSE LET k == CHOOSE i \in 1..Len(text) :
                      text[i] = sep /\ \A j \in 1..(i - 1) : text[j] # sep
         IN  <<SubSeq(text, 1, k - 1)>> \o Split(SubSeq(text, k + 1, Len(text)), sep)

\* str.strip(): leading and trailing whitespace removed.
RECURSIVE Strip(_)
Strip(text) ==
    IF text = <<>> THEN text
    ELSE IF text[1] \in {" ", "\n"} THEN Strip(Tail(text))
    ELSE IF text[Len(text)] \in {" ", "\n"} THEN Strip(SubSeq(text, 1, Len(text) - 1))
    ELSE text

\* A test that looks for the label word alone, without its colon.
ContainsWord(line, word) == \E i \in 1..Len(line) : line[i] = word

\* 'Label:' in line
Contains(line, word) ==
    \E i \in 1..(Len(line) - 1) : line[i] = word /\ line[i + 1] = ":"

DigitValue(d) == CASE d = "0" -> 0 [] d = "1" -> 1 [] d = "5" -> 5

RECURSIVE Decimal(_)
Decimal(text) ==
    IF text = <<>> THEN 0
    ELSE 10 * Decimal(SubSeq(text, 1, Len(text) - 1)) + DigitValue(text[Len(text)])

IsDigits(text) == text # <<>> /\ \A i \in 1..Len(text) : text[i] \in Digits

\* int(text): ok = FALSE stands for ValueError.
IntOf(text) ==
    IF IsDigits(text) THEN [ok |-> TRUE, value |-> Decimal(text)]
    ELSE IF Len(text) >= 2 /\ text[1] = "-" /\ IsDigits(Tail(text))
    THEN [ok |-> TRUE, value |-> 0 - Decimal(Tail(text))]
    ELSE [ok |-> FALSE, value |-> 0]

\* [line for line in response.split('\n') if 'Label:' in line]
LinesWith(text, word) ==
    LET Test(line) == Contains(line, word)
    IN  SelectSeq(Split(text, "\n"), Test)

\* lines[0].split(':')[1].strip() under "if lines:" and "except IndexError: pass";
\* found = FALSE keeps the field's default.
ExtractField(text, word) ==
    LET lines == LinesWith(text, word) IN
    IF lines = <<>> THEN [found |-> FALSE, text |-> <<>>]
    ELSE LET pieces == Split(lines[1], ":") IN
         IF Len(pieces) < 2 THEN [found |-> FALSE, text |-> <<>>]
         ELSE [found |-> TRUE, text |-> Strip(pieces[2])]

DefaultRelevance == <<"Unknown">>

\* score = 0, then int(score_text) unless ValueError or IndexError
ScoreOf(text) ==
    LET f == ExtractField(text, "Relevance Score") IN
    IF f.found /\ IntOf(f.text).ok THEN IntOf(f.text).value ELSE 0

\* A parser whose text fields all fall back to their defaults when the score
\* line does not hold an integer.
FieldOrBlanked(text, word, default) ==
    LET s == ExtractField(text, "Relevance Score")
        f == ExtractField(text, word)
    IN  IF s.found /\ ~IntOf(s.text).ok THEN default
        ELSE IF f.found THEN f.text ELSE default

FieldOr(text, word, default) ==
    LET f == ExtractField(text, word) IN IF f.found THEN f.text ELSE default

\* _parse_llm_response(response, item) for an item whose published is a datetime
\* (nothing in the try block raises, so the 'Error' dictionary is not built).
parse_llm_response(text, item, query) ==
    [item_guid |-> item.guid, item_title |-> item.title, item_source |-> item.source,
     query |-> query,
     relevance_score |-> ScoreOf(text),
     relevance |-> FieldOr(text, "Relevance", DefaultRelevance),
     explanation |-> FieldOr(text, "Explanation", <<>>),
     key_information |-> FieldOr(text, "Key Information", <<>>),
     summary |-> FieldOr(text, "Summary", <<>>),
     llm_response |-> text,
     processed_at |-> item.published]

\* The result dictionaries offered to store_llm_results.
Results ==
    {parse_llm_response(<<"Relevance Score", ":", "5">>, it, "q1") :
        it \in {i \in Items : i.link = "l1" /\ i.source = "OTS RSS Feed"}}

ResultBatches == SeqsUpTo(Results, MaxBatch)

(***************************************************************************)
(* ParserSpec: the parser applied to every response up to MaxLen tokens    *)
(***************************************************************************)
NotParsed == [done |-> FALSE]

ParserIdle ==
    /\ response = <<>>
    /\ parsed = NotParsed

ParsedItem == CHOOSE it \in Items : it.link = "l1" /\ it.source = "OTS RSS Feed" /\ it.guid = "g1"

Parse ==
    /\ ~parsed.done
    /\ parsed' = [done |-> TRUE, result |-> parse_llm_response(response, ParsedItem, "q1")]
    /\ UNCHANGED response

(***************************************************************************)
(* LLMProcessor.process_item and process_items, and the storing of their   *)
(* results as RSSConsumer.consume_all_sources does it                      *)
(***************************************************************************)
\* What self.llm(prompt, ...) does for one item: it raises, or it generates a text.
OracleOutcomes ==
    {[raises |-> TRUE, text |-> <<>>]} \cup
    {[raises |-> FALSE, text |-> t] :
        t \in {<<"Relevance Score", ":", "5">>, <<"Relevance", ":", "1">>}}

\* The items processed: of one source, with distinct links.
ProcessedItems == {it \in Items : it.source = "OTS RSS Feed" /\ it.guid = "g1"}

\* One item given to process_items, with what happens while it is processed:
\* the LLM's outcome, and whether item.published is a datetime (dated) or a
\* value without isoformat(), such as the str OTSRSSSource passes.
WorkItems ==
    {[item |-> it, dated |-> d, oracle |-> o] :
        it \in ProcessedItems, d \in BOOLEAN, o \in OracleOutcomes}

WorkLists ==
    {w \in SeqsUpTo(WorkItems, MaxBatch) :
        \A i, j \in 1..Len(w) : w[i].item.link = w[j].item.link => i = j}

NoResult == [some |-> FALSE]

\* process_item(item): None without an LLM; None when anything in the try block
\* raises.  For an item that is not dated, item.published.isoformat() raises in
\* _parse_llm_response's try block and again in its handler, which builds the
\* 'Error' dictionary with the same expression: the exception reaches
\* process_item's handler.
process_item(w, loaded, query) ==
    IF ~loaded THEN NoResult
    ELSE IF w.oracle.raises THEN NoResult
    ELSE IF ~w.dated THEN NoResult
    ELSE [some |-> TRUE, result |-> parse_llm_response(w.oracle.text, w.item, query)]

ProcessorIdle ==
    /\ llm = FALSE
    /\ work = <<>>
    /\ work_idx = 1
    /\ processed = <<>>
    /\ processor_pc = "idle"

\* process_items(items) is called.
ProcessItems ==
    /\ processor_pc = "idle"
    /\ llm' \in BOOLEAN
    /\ work' \in WorkLists
    /\ work_idx' = 1
    /\ processed' = <<>>
    /\ processor_pc' = "loop"
    /\ UNCHANGED storeVars

\* One pass of "for item in items": the result is appended if there is one.
ProcessItem ==
    /\ processor_pc = "loop"
    /\ work_idx <= Len(work)
    /\ LET r == process_item(work[work_idx], llm, "q1")
       IN  processed' = IF r.some THEN Append(processed, r.result) ELSE processed
    /\ work_idx' = work_idx + 1
    /\ UNCHANGED <<storeVars, llm, work, processor_pc>>

\* return results
ReturnProcessed ==
    /\ processor_pc = "loop"
    /\ work_idx > Len(work)
    /\ processor_pc' = "returned"
    /\ UNCHANGED <<storeVars, llm, work, work_idx, processed>>

\* if llm_results: stored_llm_count = self.db.store_llm_results(llm_results)
StoreProcessed ==
    /\ processor_pc = "returned"
    /\ LET r == store_llm_results(processed, llm_results)
       IN  /\ llm_results' = IF processed # <<>> THEN r.rows ELSE llm_results
           /\ last_call' = IF processed # <<>>
                           THEN [NoCall EXCEPT !.op = "store_llm_results",
                                               !.ret = r.stored_count,
                                               !.count_before = Cardinality(llm_results)]
                           ELSE last_call
    /\ processor_pc' = "stored"
    /\ UNCHANGED <<rss_items, rss_seq, guid_of, llm, work, work_idx, processed>>

(***************************************************************************)
(* RSSDatabase.store_source_info                                           *)
(***************************************************************************)
Urls == {"u1", "u2"}

NoSources ==
    /\ sources = {}
    /\ sources_seq = 0

\* INSERT OR REPLACE INTO sources (name, url, last_consumed): name is UNIQUE, so a
\* row of the same name is deleted before the new row is inserted; the new row
\* gets the next id, last_consumed = datetime.now() and the default created_at
\* (CURRENT_TIMESTAMP).
store_source_info(name, url, now, rows, seq) ==
    [rows |-> {r \in rows : r.name # name}
                 \cup {[id |-> seq + 1, name |-> name, url |-> url,
                         last_consumed |-> now, created_at |-> now]},
     seq |-> seq + 1]

(***************************************************************************)
(* The query ledger called by src/src/main.py.  RSSDatabase defines        *)
(* neither get_queries nor resolve_query; both follow the specification's  *)
(* Query Ledger: listOpen and the conditional update resolve.              *)
(***************************************************************************)
MaxQueries == 2

\* The text of the n-th query created (texts are unique).
QueryText(n) == IF n = 1 THEN "q1" ELSE IF n = 2 THEN "q2" ELSE "q3"

NotResolved == [title |-> None, source |-> None]

EmptyLedger ==
    /\ queries = {}
    /\ resolves = <<>>

\* The rows of a set of ledger rows as a list ordered by id.
RECURSIVE ById(_)
ById(rows) ==
    IF rows = {} THEN <<>>
    ELSE LET first == CHOOSE r \in rows : \A o \in rows : r.id <= o.id
         IN  <<first>> \o ById(rows \ {first})

\* get_queries(resolved): the queries whose state is the one asked for.
get_queries(resolved, rows) == ById({q \in rows : q.resolved = resolved})

\* An update that does not look at the query's state.
resolve_query_unconditional(id, title, source, rows) ==
    [ok |-> \E q \in rows : q.id = id,
     rows |-> {IF q.id = id
               THEN [q EXCEPT !.resolved = TRUE,
                              !.resolved_by = [title |-> title, source |-> source]]
               ELSE q : q \in rows}]

\* resolve_query(id, item_title, source_name): one conditional update; it changes
\* the row only if the query is open, and tells whether it did.
resolve_query(id, title, source, rows) ==
    IF \E q \in rows : q.id = id /\ ~q.resolved
    THEN [ok |-> TRUE,
          rows |-> {IF q.id = id
                    THEN [q EXCEPT !.resolved = TRUE,
                                   !.resolved_by = [title |-> title, source |-> source]]
                    ELSE q : q \in rows}]
    ELSE [ok |-> FALSE, rows |-> rows]

\* A query is created by an external caller, Open.
CreateQuery ==
    /\ Cardinality(queries) < MaxQueries
    /\ queries' = queries \cup
           {[id |-> Cardinality(queries) + 1, query |-> QueryText(Cardinality(queries) + 1),
             resolved |-> FALSE, resolved_by |-> NotResolved]}
    /\ UNCHANGED resolves

(***************************************************************************)
(* The script src/src/main.py                                              *)
(***************************************************************************)
MaxRuns == 1

MaxFeed == 2

\* sources = [OTSRSSSource(...), ORFNewsRSSSource(...)]
ScriptSources == <<"OTS RSS Feed", "ORF News RSS Feed">>

UrlOf(name) == IF name = "OTS RSS Feed" THEN "u1" ELSE "u2"

\* The article text decides what ArticleQueryMatcher answers for it.
Contents == {"answers", "silent"}

\* ArticleQueryMatcher.check_match(article_text, query): "Yes" in the model's output.
check_match(content, query) == content = "answers"

\* RSSItem of sources/BaseSource.py, as OTSRSSSource.consume builds it: no guid.
FeedItem(link, source, content) ==
    [form |-> "RSSItem", title |-> TitleOf(link), link |-> link,
     published |-> PublishedOf(link), source |-> source, guid |-> None,
     content |-> content]

FeedItems(source) == {FeedItem(l, source, c) : l \in Links, c \in Contents}

\* A feed lists an article once.
FeedsOf(source) ==
    {f \in SeqsUpTo(FeedItems(source), MaxFeed) :
        \A i, j \in 1..Len(f) : f[i].link = f[j].link => i = j}

\* What source.consume() does during a run: it returns the feed's items, or the
\* fetch raises (no handler in OTSRSSSource.consume or in the script).
Fetches(source) ==
    {[ok |-> TRUE, items |-> f] : f \in FeedsOf(source)} \cup {[ok |-> FALSE, items |-> <<>>]}

Range(f) == {f[i] : i \in 1..Len(f)}

\* Every assignment of a fetch outcome to each source.
Worlds ==
    {[n \in Range(ScriptSources) |-> IF n = ScriptSources[1] THEN a ELSE b] :
        a \in Fetches(ScriptSources[1]), b \in Fetches(ScriptSources[2])}

NoFeeds == [n \in Range(ScriptSources) |-> [ok |-> TRUE, items |-> <<>>]]

ScriptIdle ==
    /\ feeds = NoFeeds
    /\ pc = "idle"
    /\ runs = 0
    /\ src_idx = 1
    /\ items = <<>>
    /\ open_queries = <<>>
    /\ pair_idx = 1
    /\ evals = <<>>

CurrentSource == ScriptSources[src_idx]

\* The process ends, by an unhandled exception or at the end of the script; its
\* local variables are gone.
Exit(how) ==
    /\ pc' = how
    /\ items' = <<>>
    /\ open_queries' = <<>>
    /\ pair_idx' = 1

\* python main.py: a run starts; the feeds hold what they hold during this run.
StartRun ==
    /\ pc \in {"idle", "done", "crashed"}
    /\ runs < MaxRuns
    /\ runs' = runs + 1
    /\ feeds' \in Worlds
    /\ pc' = "consume"
    /\ src_idx' = 1
    /\ items' = <<>>
    /\ open_queries' = <<>>
    /\ pair_idx' = 1
    /\ evals' = <<>>
    /\ resolves' = <<>>
    /\ UNCHANGED <<storeVars, sourceVars, queries>>

\* items = source.consume()
Consume ==
    /\ pc = "consume"
    /\ IF feeds[CurrentSource].ok
       THEN /\ items' = feeds[CurrentSource].items
            /\ pc' = "store_source"
            /\ UNCHANGED <<open_queries, pair_idx>>
       ELSE Exit("crashed")
    /\ UNCHANGED <<storeVars, sourceVars, ledgerVars, feeds, runs, src_idx, evals>>

\* database.store_source_info(source.name, source.url)
StoreSourceInfo ==
    /\ pc = "store_source"
    /\ LET r == store_source_info(CurrentSource, UrlOf(CurrentSource), clock, sources, sources_seq)
       IN  /\ sources' = r.rows
           /\ sources_seq' = r.seq
    /\ pc' = "store_items"
    /\ UNCHANGED <<storeVars, ledgerVars, feeds, runs, src_idx, items,
                   open_queries, pair_idx, evals>>

\* database.store_rss_items(items)
StoreItems ==
    /\ pc = "store_items"
    /\ LET r == store_rss_items(items, rss_items, rss_seq, guid_of)
       IN  /\ rss_items' = r.rows
           /\ rss_seq' = r.seq
           /\ guid_of' = r.ghost
           /\ IF r.raised
              THEN Exit("crashed")
              ELSE pc' = "get_queries" /\ UNCHANGED <<items, open_queries, pair_idx>>
    /\ UNCHANGED <<llm_results, last_call, sourceVars, ledgerVars, feeds, runs,
                   src_idx, evals>>

\* open_queries = database.get_queries(False)
GetQueries ==
    /\ pc = "get_queries"
    /\ open_queries' = get_queries(FALSE, queries)
    /\ pair_idx' = 1
    /\ pc' = "pairs"
    /\ UNCHANGED <<storeVars, sourceVars, ledgerVars, feeds, runs, src_idx, items, evals>>

\* The k-th pair of itertools.product(items, open_queries): items outermost.
PairItem(k) == items[((k - 1) \div Len(open_queries)) + 1]

PairQuery(k) == open_queries[((k - 1) % Len(open_queries)) + 1]

PairCount == Len(items) * Len(open_queries)

\* The positional arguments the script passes to store_llm_results, and the
\* parameters (after self) RSSDatabase.store_llm_results declares.
ScriptResultArgs == 4

StoreLlmResultsParams == 1

\* A Python call binds only if the arguments fit the parameters; else TypeError.
CallBinds(given, declared) == given = declared

\* One pass of the loop body: check_match, store_llm_results, and resolve_query
\* when the verdict is positive.  The TypeError of a call that does not bind is
\* not handled anywhere: the script ends.
EvaluatePair ==
    /\ pc = "pairs"
    /\ pair_idx <= PairCount
    /\ LET item == PairItem(pair_idx)
           query == PairQuery(pair_idx)
           result == check_match(item.content, query.query)
           ev == [title |-> item.title, link |-> item.link, source |-> CurrentSource,
                  query_id |-> query.id, result |-> result]
       IN  /\ evals' = Append(evals, ev)
           /\ IF ~CallBinds(ScriptResultArgs, StoreLlmResultsParams)
              THEN /\ Exit("crashed")
                   /\ UNCHANGED <<llm_results, ledgerVars>>
              ELSE /\ llm_results' = llm_results \cup
                          {[id |-> Cardinality(llm_results) + 1, result |-> ev]}
                   /\ IF result
                      THEN LET r == resolve_query(query.id, item.title, CurrentSource, queries)
                           IN  /\ queries' = r.rows
                               /\ resolves' = Append(resolves,
                                      [query_id |-> query.id, title |-> item.title,
                                       source |-> CurrentSource, ok |-> r.ok])
                      ELSE UNCHANGED ledgerVars
                   /\ pair_idx' = pair_idx + 1
                   /\ pc' = "pairs"
                   /\ UNCHANGED <<items, open_queries>>
    /\ UNCHANGED <<rss_items, rss_seq, guid_of, last_call, sourceVars, feeds, runs,
                   src_idx>>

\* The product is exhausted: the next source, or the end of the script.
NextSource ==
    /\ pc = "pairs"
    /\ pair_idx > PairCount
    /\ IF src_idx < Len(ScriptSources)
       THEN /\ src_idx' = src_idx + 1
            /\ pc' = "consume"
            /\ UNCHANGED <<items, open_queries, pair_idx>>
       ELSE /\ src_idx' = src_idx
            /\ Exit("done")
    /\ UNCHANGED <<storeVars, sourceVars, ledgerVars, feeds, runs, evals>>

(***************************************************************************)
(* RSSConsumer.consume_all_sources of src/src/rss_consumer.py              *)
(***************************************************************************)
\* self.sources, as create_example_sources builds it: GenericRSSSource objects.
ConsumerSources == <<"Hacker News", "Ars Technica">>

\* An entry of a parsed feed: its link, and its id when the feed gives one.
Entries == {[link |-> l, id |-> i] : l \in Links, i \in {None, "g1"}}

EntryLists ==
    {f \in SeqsUpTo(Entries, MaxFeed) :
        \A i, j \in 1..Len(f) : f[i].link = f[j].link => i = j}

\* What fetching a feed comes to: its entries, or a failure.
FetchOutcomes ==
    {[ok |-> TRUE, entries |-> f] : f \in EntryLists} \cup {[ok |-> FALSE, entries |-> <<>>]}

\* GenericRSSSource.consume: one RSSItem per entry, guid = entry id, else link;
\* any exception is caught there and an empty list returned.
GenericRSSSource_consume(name, outcome) ==
    IF outcome.ok
    THEN [i \in 1..Len(outcome.entries) |->
             LET e == outcome.entries[i]
             IN  RSSItem(TitleOf(e.link), e.link, PublishedOf(e.link), name,
                         IF e.id # None THEN e.id ELSE e.link)]
    ELSE <<>>

\* RSSConsumer._rss_item_to_dict: the same fields, in a dict.
rss_item_to_dict(item) == [item EXCEPT !.form = "dict"]

\* The arguments the consumer passes to store_source_info, and the parameters
\* (after self) RSSDatabase.store_source_info declares.
ConsumerSourceInfoArgs == 1

StoreSourceInfoParams == 2

\* A local variable of consume_all_sources that no statement has assigned yet.
Unbound == "unbound"

\* x if 'x' in locals() else 0
LocalOrZero(x) == IF x = Unbound THEN 0 ELSE x

NoEntries == [n \in Range(ConsumerSources) |-> [ok |-> TRUE, entries |-> <<>>]]

ConsumerIdle ==
    /\ consumer_pc = "idle"
    /\ consumer_idx = 1
    /\ feed_entries = NoEntries
    /\ source_stats = {}
    /\ total_items = 0
    /\ loc_llm_results = Unbound
    /\ loc_stored_llm_count = Unbound

\* History of a call's argument: the batch, when it holds a single item.
SingleOf(batch) == IF Len(batch) = 1 THEN batch ELSE <<>>

\* consume_all_sources() starts; the feeds hold what they hold during the call.
BeginConsume ==
    /\ feed_entries' \in [Range(ConsumerSources) -> FetchOutcomes]
    /\ consumer_pc' = "loop"
    /\ consumer_idx' = 1
    /\ source_stats' = {}
    /\ total_items' = 0
    /\ loc_llm_results' = Unbound
    /\ loc_stored_llm_count' = Unbound
    /\ UNCHANGED storeVars

\* consume_all_sources() is called.
ConsumeAllSources ==
    /\ consumer_pc = "idle"
    /\ BeginConsume

\* One pass of "for source in self.sources": consume; nothing more when the list
\* is empty; else store the items as dicts, process them when the model is
\* loaded, store the source info and record the source's statistics.  Any
\* exception of the pass is caught and recorded as the source's error entry.
\* llm_results and stored_llm_count are locals of the method: a pass that does
\* not assign them leaves them as the pass before left them.  The LLM step
\* adds no row: llm_results lacks the columns store_llm_results inserts.
ProcessSource ==
    /\ consumer_pc = "loop"
    /\ consumer_idx <= Len(ConsumerSources)
    /\ LET source == ConsumerSources[consumer_idx]
           found == GenericRSSSource_consume(source, feed_entries[source])
           items_dict == [i \in 1..Len(found) |-> rss_item_to_dict(found[i])]
           r == store_rss_items(items_dict, rss_items, rss_seq, guid_of)
           Put(entry) == {e \in source_stats : e.name # source} \cup {entry}
           ErrorEntry == [name |-> source, error |-> TRUE, items_found |-> 0,
                          items_stored |-> 0, llm_processed |-> 0, llm_stored |-> 0]
       IN  IF found = <<>>
           THEN UNCHANGED <<rss_items, rss_seq, guid_of, last_call, source_stats, total_items,
                            loc_llm_results, loc_stored_llm_count>>
           ELSE /\ total_items' = total_items + Len(found)
                /\ last_call' = [NoCall EXCEPT
                       !.op = "store_rss_items",
                       !.single = SingleOf(items_dict),
                       !.ret = r.stored_count,
                       !.failed = r.raised,
                       !.count_before = Cardinality(rss_items)]
                /\ rss_items' = r.rows
                /\ rss_seq' = r.seq
                /\ guid_of' = r.ghost
                /\ IF r.raised
                   THEN /\ source_stats' = Put(ErrorEntry)
                        /\ UNCHANGED <<loc_llm_results, loc_stored_llm_count>>
                   ELSE \E n \in 0..Len(found) :
                          \* n: the number of results process_items returns
                          LET results == [i \in 1..n |->
                                             parse_llm_response(<<>>, found[i], "q1")]
                          IN  /\ loc_llm_results' = (IF llm THEN n ELSE loc_llm_results)
                              /\ loc_stored_llm_count' =
                                     (IF llm /\ n > 0
                                      THEN store_llm_results(results, llm_results).stored_count
                                      ELSE loc_stored_llm_count)
                              /\ IF ~CallBinds(ConsumerSourceInfoArgs, StoreSourceInfoParams)
                                 THEN source_stats' = Put(ErrorEntry)
                                 ELSE source_stats' =
                                          Put([name |-> source, error |-> FALSE,
                                               items_found |-> Len(found),
                                               items_stored |-> r.stored_count,
                                               llm_processed |-> LocalOrZero(loc_llm_results'),
                                               llm_stored |-> LocalOrZero(loc_stored_llm_count')])
    /\ consumer_idx' = consumer_idx + 1
    /\ UNCHANGED <<llm_results, consumer_pc, feed_entries>>

\* The loop is over: the statistics are returned.
ReturnStats ==
    /\ consumer_pc = "loop"
    /\ consumer_idx > Len(ConsumerSources)
    /\ consumer_pc' = "returned"
    /\ UNCHANGED <<storeVars, consumer_idx, feed_entries, source_stats, total_items,
                   loc_llm_results, loc_stored_llm_count>>

(***************************************************************************)
(* RSSConsumer.run_scheduled_consumption of src/src/rss_consumer.py        *)
(***************************************************************************)
MaxRunsLimit == 2

RunCountCap == 3

\* The values of max_runs: None, or a number of runs.
MaxRunsChoices ==
    {[given |-> FALSE, n |-> 0]} \cup {[given |-> TRUE, n |-> k] : k \in 0..MaxRunsLimit}

\* A loop that stops after its first run, whatever max_runs is.
LoopContinuesOnce(max, count) == count < 1

\* while max_runs is None or run_count < max_runs
LoopContinues(max, count) == ~max.given \/ count < max.n

\* A test that breaks after every run.
BreaksAlways(max, count) == TRUE

\* if max_runs and run_count >= max_runs: break   (0 and None are falsy)
Breaks(max, count) == max.given /\ max.n # 0 /\ count >= max.n

\* if max_runs is None or run_count < max_runs: time.sleep(...)
SleepsAfterRun(max, count) == ~max.given \/ count < max.n

\* A handler that goes back to the loop.
ResumesLoop(at) == "test"

\* except KeyboardInterrupt: print(...); the method returns.
OnKeyboardInterrupt(at) == "returned"

SchedulerIdle ==
    /\ max_runs = [given |-> FALSE, n |-> 0]
    /\ run_count = 0
    /\ scheduler_pc = "idle"
    /\ sleeps = 0
    /\ interrupted = FALSE
    /\ errored_runs = 0

\* run_scheduled_consumption(interval_minutes, max_runs) is called.
RunScheduledConsumption ==
    /\ scheduler_pc = "idle"
    /\ max_runs' \in MaxRunsChoices
    /\ run_count' = 0
    /\ scheduler_pc' = "test"
    /\ UNCHANGED <<storeVars, consumerVars, sleeps, interrupted, errored_runs>>

\* The while condition: a run starts (stats = self.consume_all_sources()), or the
\* loop ends and the method returns.
TestLoop ==
    /\ scheduler_pc = "test"
    /\ run_count < RunCountCap
    /\ IF LoopContinues(max_runs, run_count)
       THEN BeginConsume /\ scheduler_pc' = "run"
       ELSE scheduler_pc' = "returned" /\ UNCHANGED <<storeVars, consumerVars>>
    /\ UNCHANGED <<max_runs, run_count, sleeps, interrupted, errored_runs>>

\* A step of the run in progress.
RunStep ==
    /\ scheduler_pc = "run"
    /\ ProcessSource \/ ReturnStats
    /\ UNCHANGED schedulerVars

\* consume_all_sources has returned: run_count += 1, then break, or sleep.
AfterRun ==
    /\ scheduler_pc = "run"
    /\ consumer_pc = "returned"
    /\ run_count' = run_count + 1
    /\ errored_runs' = IF \E e \in source_stats : e.error
                       THEN errored_runs + 1 ELSE errored_runs
    /\ IF Breaks(max_runs, run_count + 1)
       THEN scheduler_pc' = "returned" /\ sleeps' = sleeps
       ELSE IF SleepsAfterRun(max_runs, run_count + 1)
       THEN scheduler_pc' = "sleep" /\ sleeps' = sleeps + 1
       ELSE scheduler_pc' = "test" /\ sleeps' = sleeps
    /\ UNCHANGED <<storeVars, consumerVars, max_runs, interrupted>>

\* time.sleep(interval_minutes * 60) returns.
SleepEnds ==
    /\ scheduler_pc = "sleep"
    /\ scheduler_pc' = "test"
    /\ UNCHANGED <<storeVars, consumerVars, max_runs, run_count, sleeps, interrupted,
                   errored_runs>>

\* Ctrl+C inside the try block: between two steps of a run or during the sleep.
\* "except Exception" in consume_all_sources does not catch it; the run in
\* progress is abandoned.  Every store call made before it has committed, and
\* no call is in progress between two passes, so no row changes.
KeyboardInterrupt ==
    /\ scheduler_pc \in {"test", "run", "sleep"}
    /\ interrupted' = TRUE
    /\ scheduler_pc' = OnKeyboardInterrupt(scheduler_pc)
    /\ UNCHANGED <<storeVars, consumerVars, max_runs, run_count, sleeps, errored_runs>>

(***************************************************************************)
(* store_rss_items run by two workers, each on its own sqlite3 connection  *)
(* to the same database file                                               *)
(***************************************************************************)
Connections == {1, 2}

NoLock == 0

ConnectionsIdle ==
    /\ conn_pc = [c \in Connections |-> "idle"]
    /\ conn_item = ParsedItem
    /\ conn_pending = [c \in Connections |-> {}]
    /\ conn_count = [c \in Connections |-> 0]
    /\ write_lock = NoLock

\* Both workers are given the same item and call store_rss_items([item]).
StartWorkers ==
    /\ \A c \in Connections : conn_pc[c] = "idle"
    /\ conn_item' \in Items
    /\ conn_pc' = [c \in Connections |-> "select"]
    /\ UNCHANGED <<storeVars, conn_pending, conn_count, write_lock>>

\* SELECT id FROM rss_items WHERE link = ? AND source = ?: a connection sees the
\* committed rows and its own; "if exists: continue" ends the loop of one item.
SelectExisting(c) ==
    /\ conn_pc[c] = "select"
    /\ conn_pc' = [conn_pc EXCEPT ![c] =
           IF Exists(rss_items \cup conn_pending[c], conn_item) THEN "commit" ELSE "insert"]
    /\ UNCHANGED <<storeVars, conn_item, conn_pending, conn_count, write_lock>>

\* INSERT OR REPLACE INTO rss_items: the statement opens the connection's
\* transaction and takes the write lock; the table has no UNIQUE constraint on
\* (link, source), so nothing is replaced.  A row that violates NOT NULL is
\* rejected (sqlite3.IntegrityError, caught).
InsertItem(c) ==
    /\ conn_pc[c] = "insert"
    /\ write_lock \in {NoLock, c}
    /\ conn_pc' = [conn_pc EXCEPT ![c] = "commit"]
    /\ IF NotNullViolated(conn_item)
       THEN UNCHANGED <<rss_seq, guid_of, conn_pending, conn_count, write_lock>>
       ELSE /\ write_lock' = c
            /\ rss_seq' = rss_seq + 1
            /\ guid_of' = Append(guid_of, conn_item.guid)
            /\ conn_pending' = [conn_pending EXCEPT ![c] = @ \cup {RowOf(rss_seq + 1, conn_item)}]
            /\ conn_count' = [conn_count EXCEPT ![c] = @ + 1]
    /\ UNCHANGED <<rss_items, llm_results, last_call, conn_item>>

\* The INSERT while the other connection holds the write lock, once the busy
\* timeout has passed: sqlite3.OperationalError "database is locked", caught by
\* "except sqlite3.Error"; the item is skipped.
InsertLocked(c) ==
    /\ conn_pc[c] = "insert"
    /\ write_lock \notin {NoLock, c}
    /\ conn_pc' = [conn_pc EXCEPT ![c] = "commit"]
    /\ UNCHANGED <<storeVars, conn_item, conn_pending, conn_count, write_lock>>

\* conn.commit(): the connection's rows become visible and the lock is released.
CommitItems(c) ==
    /\ conn_pc[c] = "commit"
    /\ rss_items' = rss_items \cup conn_pending[c]
    /\ conn_pending' = [conn_pending EXCEPT ![c] = {}]
    /\ write_lock' = IF write_lock = c THEN NoLock ELSE write_lock
    /\ conn_pc' = [conn_pc EXCEPT ![c] = "done"]
    /\ UNCHANGED <<rss_seq, llm_results, guid_of, last_call, conn_item, conn_count>>

(***************************************************************************)
(* RSSDatabase.__init__ / _create_tables on a database file, and the calls *)
(* made on the RSSDatabase object afterwards                               *)
(***************************************************************************)
MaxSourceCalls == 3

MaxTicks == 2

AllTables == {"rss_items", "llm_results", "sources"}

\* An RSSDatabase object exists: its file holds the three tables.
FileIdle ==
    /\ db_tables = AllTables
    /\ clock = Today

\* DROP TABLE IF EXISTS followed by CREATE TABLE: the table starts empty.
create_table_anew(name, tables, rows) == {}

\* CREATE TABLE IF NOT EXISTS: an existing table keeps its rows.
create_table_if_not_exists(name, tables, rows) ==
    IF name \in tables THEN rows ELSE {}

\* RSSDatabase(db_path): _create_tables runs the three CREATE TABLE IF NOT EXISTS
\* statements; the AUTOINCREMENT counters of existing tables are kept.
create_tables ==
    /\ rss_items' = create_table_if_not_exists("rss_items", db_tables, rss_items)
    /\ llm_results' = create_table_if_not_exists("llm_results", db_tables, llm_results)
    /\ sources' = create_table_if_not_exists("sources", db_tables, sources)
    /\ rss_seq' = (IF "rss_items" \in db_tables THEN rss_seq ELSE 0)
    /\ sources_seq' = (IF "sources" \in db_tables THEN sources_seq ELSE 0)
    /\ guid_of' = (IF "rss_items" \in db_tables THEN guid_of ELSE <<>>)
    /\ db_tables' = AllTables
    /\ last_call' = [NoCall EXCEPT !.op = "__init__"]
    /\ UNCHANGED clock

\* os.remove(test_db_path): the database file is deleted.
RemoveFile ==
    /\ db_tables # {}
    /\ db_tables' = {}
    /\ rss_items' = {}
    /\ llm_results' = {}
    /\ sources' = {}
    /\ rss_seq' = 0
    /\ sources_seq' = 0
    /\ guid_of' = <<>>
    /\ last_call' = [NoCall EXCEPT !.op = "remove"]
    /\ UNCHANGED clock

\* database.store_source_info(name, url) on an RSSDatabase object.
UpsertSource(name, url) ==
    /\ db_tables = AllTables
    /\ sources_seq < MaxSourceCalls
    /\ LET r == store_source_info(name, url, clock, sources, sources_seq)
       IN  /\ sources' = r.rows
           /\ sources_seq' = r.seq
    /\ last_call' = [NoCall EXCEPT !.op = "store_source_info"]
    /\ UNCHANGED <<rss_items, rss_seq, llm_results, guid_of, fileVars>>

\* Time passes: datetime.now() returns a later day.
Tick ==
    /\ clock < Today + MaxTicks
    /\ clock' = clock + 1
    /\ UNCHANGED <<storeVars, sourceVars, db_tables>>

(***************************************************************************)
(* main() of src/main.py: the state of a command line with --cleanup 0     *)
(***************************************************************************)
\* main() has passed its cleanup step, run with --cleanup 0.
CliIdle ==
    /\ cli_pc = "scheduled"
    /\ cli_cleanup = 0
    /\ cleanups = <<>>

(***************************************************************************)
(* The loop body of src/src/main.py (lines 29-37) run by two workers, one  *)
(* per source, against the same query ledger                               *)
(***************************************************************************)
Workers == {1, 2}

\* Worker w processes the source at position w of the script's list.
WorkerSource(w) == ScriptSources[w]

WorkersIdle ==
    /\ worker_pc = [w \in Workers |-> "idle"]
    /\ worker_item = [w \in Workers |-> FeedItem("l1", WorkerSource(w), "silent")]
    /\ worker_open = [w \in Workers |-> <<>>]
    /\ worker_idx = [w \in Workers |-> 1]

\* Each worker has fetched and stored one item of its source.
StartEvaluation ==
    /\ \A w \in Workers : worker_pc[w] = "idle"
    /\ worker_item' \in {f \in [Workers -> UNION {FeedItems(WorkerSource(w)) : w \in Workers}] :
                             \A w \in Workers : f[w].source = WorkerSource(w)}
    /\ worker_pc' = [w \in Workers |-> "get_queries"]
    /\ resolves' = <<>>
    /\ UNCHANGED <<storeVars, queries, worker_open, worker_idx>>

\* open_queries = database.get_queries(False)
WorkerGetQueries(w) ==
    /\ worker_pc[w] = "get_queries"
    /\ worker_open' = [worker_open EXCEPT ![w] = get_queries(FALSE, queries)]
    /\ worker_idx' = [worker_idx EXCEPT ![w] = 1]
    /\ worker_pc' = [worker_pc EXCEPT ![w] = "pairs"]
    /\ UNCHANGED <<storeVars, ledgerVars, worker_item>>

\* One pass of the loop body for the worker's item and its next open query:
\* check_match, store_llm_results and, on a positive verdict, resolve_query.
\* The call of store_llm_results does not bind: TypeError, the worker ends.
WorkerEvaluatePair(w) ==
    /\ worker_pc[w] = "pairs"
    /\ worker_idx[w] <= Len(worker_open[w])
    /\ LET item == worker_item[w]
           query == worker_open[w][worker_idx[w]]
           result == check_match(item.content, query.query)
       IN  IF ~CallBinds(ScriptResultArgs, StoreLlmResultsParams)
           THEN /\ worker_pc' = [worker_pc EXCEPT ![w] = "crashed"]
                /\ UNCHANGED <<llm_results, ledgerVars, worker_idx>>
           ELSE /\ llm_results' = llm_results \cup
                       {[id |-> Cardinality(llm_results) + 1,
                         result |-> [title |-> item.title, source |-> item.source,
                                     query_id |-> query.id, result |-> result]]}
                /\ IF result
                   THEN LET r == resolve_query(query.id, item.title, item.source, queries)
                        IN  /\ queries' = r.rows
                            /\ resolves' = Append(resolves,
                                   [query_id |-> query.id, title |-> item.title,
                                    source |-> item.source, ok |-> r.ok])
                   ELSE UNCHANGED ledgerVars
                /\ worker_idx' = [worker_idx EXCEPT ![w] = @ + 1]
                /\ UNCHANGED worker_pc
    /\ UNCHANGED <<rss_items, rss_seq, guid_of, last_call, worker_item, worker_open>>

\* The worker's product is exhausted.
WorkerDone(w) ==
    /\ worker_pc[w] = "pairs"
    /\ worker_idx[w] > Len(worker_open[w])
    /\ worker_pc' = [worker_pc EXCEPT ![w] = "done"]
    /\ UNCHANGED <<storeVars, ledgerVars, worker_item, worker_open, worker_idx>>

ScriptInit ==
    /\ EmptyStore
    /\ ParserIdle
    /\ NoSources
    /\ EmptyLedger
    /\ ScriptIdle
    /\ ConsumerIdle
    /\ ProcessorIdle
    /\ SchedulerIdle
    /\ ConnectionsIdle
    /\ WorkersIdle
    /\ FileIdle
    /\ CliIdle

Next ==
    \/ StartRun /\ UNCHANGED <<parserVars, consumerVars, processorVars, schedulerVars, connVars, workerVars, fileVars, cliVars>>
    \/ Consume /\ UNCHANGED <<parserVars, consumerVars, processorVars, schedulerVars, connVars, workerVars, fileVars, cliVars>>
    \/ StoreSourceInfo /\ UNCHANGED <<parserVars, consumerVars, processorVars, schedulerVars, connVars, workerVars, fileVars, cliVars>>
    \/ StoreItems /\ UNCHANGED <<parserVars, consumerVars, processorVars, schedulerVars, connVars, workerVars, fileVars, cliVars>>
    \/ GetQueries /\ UNCHANGED <<parserVars, consumerVars, processorVars, schedulerVars, connVars, workerVars, fileVars, cliVars>>
    \/ EvaluatePair /\ UNCHANGED <<parserVars, consumerVars, processorVars, schedulerVars, connVars, workerVars, fileVars, cliVars>>
    \/ NextSource /\ UNCHANGED <<parserVars, consumerVars, processorVars, schedulerVars, connVars, workerVars, fileVars, cliVars>>
    \/ CreateQuery /\ UNCHANGED <<storeVars, parserVars, sourceVars, scriptVars, consumerVars, processorVars, schedulerVars, connVars, workerVars, fileVars, cliVars>>

Spec == ScriptInit /\ [][Next]_vars

(***************************************************************************)
(* StoreSpec: the store's operations called in any order with any batch    *)
(***************************************************************************)
StoreInit ==
    /\ EmptyStore
    /\ ParserIdle
    /\ NoSources
    /\ EmptyLedger
    /\ ScriptIdle
    /\ ConsumerIdle
    /\ ProcessorIdle
    /\ SchedulerIdle
    /\ ConnectionsIdle
    /\ WorkersIdle
    /\ FileIdle
    /\ CliIdle

StoreRssItems(batch) ==
    LET r == store_rss_items(batch, rss_items, rss_seq, guid_of)
        rep == /\ last_call.op = "store_rss_items"
               /\ Len(batch) = 1
               /\ last_call.single = batch
    IN  /\ rss_items' = r.rows
        /\ rss_seq' = r.seq
        /\ guid_of' = r.ghost
        /\ last_call' = [NoCall EXCEPT
               !.op = "store_rss_items",
               !.single = SingleOf(batch),
               !.ret = r.stored_count,
               !.failed = r.raised,
               !.count_before = Cardinality(rss_items),
               !.existed = Len(batch) = 1 /\ Exists(rss_items, batch[1]),
               !.repeat = rep,
               !.prev_existed = rep /\ last_call.existed,
               !.prev_ret = IF rep THEN last_call.ret ELSE 0,
               !.prev_grew = IF rep THEN Cardinality(rss_items) - last_call.count_before ELSE 0]
        /\ UNCHANGED llm_results

StoreLlmResults(results) ==
    LET r == store_llm_results(results, llm_results) IN
    /\ llm_results' = r.rows
    /\ last_call' = [NoCall EXCEPT
           !.op = "store_llm_results",
           !.ret = r.stored_count,
           !.count_before = Cardinality(llm_results),
           !.offered = results]
    /\ UNCHANGED <<rss_items, rss_seq, guid_of>>

CleanupOldItems(days) ==
    LET r == cleanup_old_items(days, rss_items, llm_results, guid_of) IN
    /\ rss_items' = r.rows
    /\ llm_results' = r.results
    /\ last_call' = [NoCall EXCEPT
           !.op = "cleanup_old_items",
           !.days = days,
           !.failed = r.failed,
           !.count_before = Cardinality(rss_items),
           !.items_before = rss_items,
           !.results_before = llm_results]
    /\ UNCHANGED <<rss_seq, guid_of>>

otherThanStore == <<parserVars, sourceVars, ledgerVars, scriptVars, consumerVars, processorVars, schedulerVars, connVars, workerVars, fileVars, cliVars>>

StoreNext ==
    \/ \E batch \in Batches : StoreRssItems(batch) /\ UNCHANGED otherThanStore
    \/ \E results \in ResultBatches : StoreLlmResults(results) /\ UNCHANGED otherThanStore
    \/ CleanupOldItems(DefaultDaysOld) /\ UNCHANGED otherThanStore

StoreSpec == StoreInit /\ [][StoreNext]_vars

ParserInit ==
    /\ EmptyStore
    /\ NoSources
    /\ EmptyLedger
    /\ ScriptIdle
    /\ ConsumerIdle
    /\ ProcessorIdle
    /\ SchedulerIdle
    /\ ConnectionsIdle
    /\ WorkersIdle
    /\ FileIdle
    /\ CliIdle
    /\ response \in Responses(MaxLen)
    /\ parsed = NotParsed

ParserNext == Parse /\ UNCHANGED <<storeVars, sourceVars, ledgerVars, scriptVars, consumerVars, processorVars, schedulerVars, connVars, workerVars, fileVars, cliVars>>

ParserSpec == ParserInit /\ [][ParserNext]_vars

(***************************************************************************)
(* LedgerSpec: the ledger's operations called in any order                 *)
(***************************************************************************)
MaxResolveCalls == 3

Titles == {TitleOf(l) : l \in Links}

LedgerInit ==
    /\ EmptyStore
    /\ ParserIdle
    /\ NoSources
    /\ EmptyLedger
    /\ ScriptIdle
    /\ ConsumerIdle
    /\ ProcessorIdle
    /\ SchedulerIdle
    /\ ConnectionsIdle
    /\ WorkersIdle
    /\ FileIdle
    /\ CliIdle

\* database.resolve_query(query['id'], item.title, source.name)
ResolveQuery(id, title, source) ==
    /\ Len(resolves) < MaxResolveCalls
    /\ LET r == resolve_query(id, title, source, queries)
       IN  /\ queries' = r.rows
           /\ resolves' = Append(resolves,
                  [query_id |-> id, title |-> title, source |-> source, ok |-> r.ok])

otherThanLedger == <<storeVars, parserVars, sourceVars, scriptVars, consumerVars, processorVars, schedulerVars, connVars, workerVars, fileVars, cliVars>>

LedgerNext ==
    \/ CreateQuery /\ UNCHANGED otherThanLedger
    \/ \E id \in 1..MaxQueries, title \in Titles, source \in Range(ScriptSources) :
           ResolveQuery(id, title, source) /\ UNCHANGED otherThanLedger

LedgerSpec == LedgerInit /\ [][LedgerNext]_vars

(***************************************************************************)
(* ConsumerSpec: one call of RSSConsumer.consume_all_sources               *)
(***************************************************************************)
ConsumerInit ==
    /\ EmptyStore
    /\ ParserIdle
    /\ NoSources
    /\ EmptyLedger
    /\ ScriptIdle
    /\ ConsumerIdle
    /\ ProcessorIdle
    /\ SchedulerIdle
    /\ ConnectionsIdle
    /\ WorkersIdle
    /\ FileIdle
    /\ CliIdle

otherThanConsumer == <<parserVars, sourceVars, ledgerVars, scriptVars, processorVars, schedulerVars, connVars, workerVars, fileVars, cliVars>>

ConsumerNext ==
    \/ ConsumeAllSources /\ UNCHANGED otherThanConsumer
    \/ ProcessSource /\ UNCHANGED otherThanConsumer
    \/ ReturnStats /\ UNCHANGED otherThanConsumer

ConsumerSpec == ConsumerInit /\ [][ConsumerNext]_vars

(***************************************************************************)
(* ProcessorSpec: one call of process_items, its results stored            *)
(***************************************************************************)
ProcessorInit ==
    /\ EmptyStore
    /\ ParserIdle
    /\ NoSources
    /\ EmptyLedger
    /\ ScriptIdle
    /\ ConsumerIdle
    /\ ProcessorIdle
    /\ SchedulerIdle
    /\ ConnectionsIdle
    /\ WorkersIdle
    /\ FileIdle
    /\ CliIdle

otherThanProcessor == <<parserVars, sourceVars, ledgerVars, scriptVars, consumerVars, schedulerVars, connVars, workerVars, fileVars, cliVars>>

ProcessorNext ==
    \/ ProcessItems /\ UNCHANGED otherThanProcessor
    \/ ProcessItem /\ UNCHANGED otherThanProcessor
    \/ ReturnProcessed /\ UNCHANGED otherThanProcessor
    \/ StoreProcessed /\ UNCHANGED otherThanProcessor

ProcessorSpec == ProcessorInit /\ [][ProcessorNext]_vars

(***************************************************************************)
(* SchedulerSpec: one call of run_scheduled_consumption, on a database     *)
(* file that earlier store_rss_items calls may have filled                 *)
(***************************************************************************)
\* The batches stored before the scheduler starts.
EarlierBatches == {<<>>, <<ParsedItem>>}

SchedulerInit ==
    /\ \E batch \in EarlierBatches :
           LET r == store_rss_items(batch, {}, 0, <<>>)
           IN  /\ rss_items = r.rows
               /\ rss_seq = r.seq
               /\ guid_of = r.ghost
    /\ llm_results = {}
    /\ last_call = NoCall
    /\ ParserIdle
    /\ NoSources
    /\ EmptyLedger
    /\ ScriptIdle
    /\ ConsumerIdle
    /\ ProcessorIdle
    /\ SchedulerIdle
    /\ ConnectionsIdle
    /\ WorkersIdle
    /\ FileIdle
    /\ CliIdle

otherThanScheduler == <<parserVars, sourceVars, ledgerVars, scriptVars, processorVars, connVars, workerVars, fileVars, cliVars>>

SchedulerNext ==
    \/ RunScheduledConsumption /\ UNCHANGED otherThanScheduler
    \/ TestLoop /\ UNCHANGED otherThanScheduler
    \/ RunStep /\ UNCHANGED otherThanScheduler
    \/ AfterRun /\ UNCHANGED otherThanScheduler
    \/ SleepEnds /\ UNCHANGED otherThanScheduler
    \/ KeyboardInterrupt /\ UNCHANGED otherThanScheduler

SchedulerSpec == SchedulerInit /\ [][SchedulerNext]_vars

\* The steps the scheduler takes by itself: the interpreter keeps executing and
\* time.sleep returns.
SchedulerProgress ==
    \/ TestLoop /\ UNCHANGED otherThanScheduler
    \/ RunStep /\ UNCHANGED otherThanScheduler
    \/ AfterRun /\ UNCHANGED otherThanScheduler
    \/ SleepEnds /\ UNCHANGED otherThanScheduler

SchedulerFairSpec == SchedulerSpec /\ WF_vars(SchedulerProgress)

(***************************************************************************)
(* ConnectionsSpec: two workers store the same item concurrently, on a     *)
(* database file that earlier store_rss_items calls may have filled        *)
(***************************************************************************)
ConnectionsInit ==
    /\ \E batch \in EarlierBatches :
           LET r == store_rss_items(batch, {}, 0, <<>>)
           IN  /\ rss_items = r.rows
               /\ rss_seq = r.seq
               /\ guid_of = r.ghost
    /\ llm_results = {}
    /\ last_call = NoCall
    /\ ParserIdle
    /\ NoSources
    /\ EmptyLedger
    /\ ScriptIdle
    /\ ConsumerIdle
    /\ ProcessorIdle
    /\ SchedulerIdle
    /\ ConnectionsIdle
    /\ WorkersIdle
    /\ FileIdle
    /\ CliIdle

otherThanConnections ==
    <<parserVars, sourceVars, ledgerVars, scriptVars, consumerVars, processorVars,
      schedulerVars, workerVars, fileVars, cliVars>>

ConnectionsNext ==
    \/ StartWorkers /\ UNCHANGED otherThanConnections
    \/ \E c \in Connections : SelectExisting(c) /\ UNCHANGED otherThanConnections
    \/ \E c \in Connections : InsertItem(c) /\ UNCHANGED otherThanConnections
    \/ \E c \in Connections : InsertLocked(c) /\ UNCHANGED otherThanConnections
    \/ \E c \in Connections : CommitItems(c) /\ UNCHANGED otherThanConnections

ConnectionsSpec == ConnectionsInit /\ [][ConnectionsNext]_vars

(***************************************************************************)
(* WorkersSpec: two workers evaluate their items against the same ledger   *)
(***************************************************************************)
WorkersInit ==
    /\ EmptyStore
    /\ ParserIdle
    /\ NoSources
    /\ EmptyLedger
    /\ ScriptIdle
    /\ ConsumerIdle
    /\ ProcessorIdle
    /\ SchedulerIdle
    /\ ConnectionsIdle
    /\ WorkersIdle
    /\ FileIdle
    /\ CliIdle

otherThanWorkers ==
    <<parserVars, sourceVars, scriptVars, consumerVars, processorVars, schedulerVars,
      connVars, fileVars, cliVars>>

WorkersNext ==
    \/ CreateQuery /\ UNCHANGED <<storeVars, workerVars, otherThanWorkers>>
    \/ StartEvaluation /\ UNCHANGED otherThanWorkers
    \/ \E w \in Workers : WorkerGetQueries(w) /\ UNCHANGED otherThanWorkers
    \/ \E w \in Workers : WorkerEvaluatePair(w) /\ UNCHANGED otherThanWorkers
    \/ \E w \in Workers : WorkerDone(w) /\ UNCHANGED otherThanWorkers

WorkersSpec == WorkersInit /\ [][WorkersNext]_vars

(***************************************************************************)
(* FileSpec: a database file that is created, filled, opened again by a    *)
(* new RSSDatabase object, and removed                                     *)
(***************************************************************************)
FileItems == {i \in Items : i.guid = "g1"}

FileInit ==
    /\ EmptyStore
    /\ ParserIdle
    /\ NoSources
    /\ EmptyLedger
    /\ ScriptIdle
    /\ ConsumerIdle
    /\ ProcessorIdle
    /\ SchedulerIdle
    /\ ConnectionsIdle
    /\ WorkersIdle
    /\ db_tables = {}
    /\ clock = Today
    /\ CliIdle

otherThanFile ==
    <<parserVars, ledgerVars, scriptVars, consumerVars, processorVars, schedulerVars,
      connVars, workerVars, cliVars>>

FileNext ==
    \/ create_tables /\ UNCHANGED otherThanFile
    \/ RemoveFile /\ UNCHANGED otherThanFile
    \/ \E item \in FileItems :
          /\ db_tables = AllTables
          /\ StoreRssItems(<<item>>)
          /\ UNCHANGED <<sourceVars, fileVars>>
          /\ UNCHANGED otherThanFile
    \/ \E name \in SourceNames, url \in Urls : UpsertSource(name, url) /\ UNCHANGED otherThanFile

FileSpec == FileInit /\ [][FileNext]_vars

(***************************************************************************)
(* ParserLinesSpec: the parser applied to responses made of whole lines in *)
(* the format the prompt asks for ("Label: value"), up to MaxLines lines   *)
(***************************************************************************)
MaxLines == 3

\* What follows "Label:" on a line: nothing, an integer, a text that is not an
\* integer, a value with a colon in it, a value that holds another label.
LineValues ==
    {<<>>, <<"-">>, <<" ", "1", "0">>, <<"5", ":", "1">>, <<"Summary", ":", "1">>}

ResponseLines ==
    {<<w, ":">> \o v : w \in LabelWords, v \in LineValues} \cup {<<"1">>}

\* '\n'.join(lines)
RECURSIVE Join(_)
Join(lines) ==
    IF lines = <<>> THEN <<>>
    ELSE IF Len(lines) = 1 THEN lines[1]
    ELSE lines[1] \o <<"\n">> \o Join(Tail(lines))

\* The responses of at most n lines.
LineResponses(n) == {Join(ls) : ls \in SeqsUpTo(ResponseLines, n)}

ParserLinesInit ==
    /\ EmptyStore
    /\ NoSources
    /\ EmptyLedger
    /\ ScriptIdle
    /\ ConsumerIdle
    /\ ProcessorIdle
    /\ SchedulerIdle
    /\ ConnectionsIdle
    /\ WorkersIdle
    /\ FileIdle
    /\ CliIdle
    /\ response \in LineResponses(MaxLines)
    /\ parsed = NotParsed

ParserLinesSpec == ParserLinesInit /\ [][ParserNext]_vars

(***************************************************************************)
(* main() of src/main.py in scheduled mode: the --cleanup step, then       *)
(* RSSConsumer.run_scheduled_consumption                                   *)
(***************************************************************************)
\* The values of args.cleanup: a number of days (30 by default), 0 for no cleanup.
CleanupChoices == {0, DefaultDaysOld}

\* if args.cleanup > 0: consumer.cleanup_old_data(args.cleanup), which calls
\* self.db.cleanup_old_items(days_old).
MainCleanup ==
    /\ cli_pc = "start"
    /\ IF cli_cleanup > 0
       THEN /\ CleanupOldItems(cli_cleanup)
            /\ cleanups' = Append(cleanups, run_count)
       ELSE UNCHANGED <<storeVars, cleanups>>
    /\ cli_pc' = "scheduled"
    /\ UNCHANGED <<cli_cleanup, consumerVars, schedulerVars>>

\* if args.scheduled: consumer.run_scheduled_consumption(...)
MainScheduled ==
    /\ cli_pc = "scheduled"
    /\ RunScheduledConsumption
    /\ UNCHANGED cliVars

(***************************************************************************)
(* CliSpec: python main.py --scheduled --cleanup N                         *)
(***************************************************************************)
CliInit ==
    /\ \E batch \in EarlierBatches :
           LET r == store_rss_items(batch, {}, 0, <<>>)
           IN  /\ rss_items = r.rows
               /\ rss_seq = r.seq
               /\ guid_of = r.ghost
    /\ llm_results = {}
    /\ last_call = NoCall
    /\ ParserIdle
    /\ NoSources
    /\ EmptyLedger
    /\ ScriptIdle
    /\ ConsumerIdle
    /\ ProcessorIdle
    /\ SchedulerIdle
    /\ ConnectionsIdle
    /\ WorkersIdle
    /\ FileIdle
    /\ cli_pc = "start"
    /\ cli_cleanup \in CleanupChoices
    /\ cleanups = <<>>

otherThanCli ==
    <<parserVars, sourceVars, ledgerVars, scriptVars, processorVars, connVars,
      workerVars, fileVars>>

CliNext ==
    \/ MainCleanup /\ UNCHANGED otherThanCli
    \/ MainScheduled /\ UNCHANGED otherThanCli
    \/ TestLoop /\ UNCHANGED <<otherThanCli, cliVars>>
    \/ RunStep /\ UNCHANGED <<otherThanCli, cliVars>>
    \/ AfterRun /\ UNCHANGED <<otherThanCli, cliVars>>
    \/ SleepEnds /\ UNCHANGED <<otherThanCli, cliVars>>
    \/ KeyboardInterrupt /\ UNCHANGED <<otherThanCli, cliVars>>

CliSpec == CliInit /\ [][CliNext]_vars

(***************************************************************************)
(* SourcesSpec: store_source_info called with any name and url, as time    *)
(* passes                                                                  *)
(***************************************************************************)
SourcesInit ==
    /\ EmptyStore
    /\ ParserIdle
    /\ NoSources
    /\ EmptyLedger
    /\ ScriptIdle
    /\ ConsumerIdle
    /\ ProcessorIdle
    /\ SchedulerIdle
    /\ ConnectionsIdle
    /\ WorkersIdle
    /\ FileIdle
    /\ CliIdle

SourcesNext ==
    \/ \E name \in SourceNames, url \in Urls : UpsertSource(name, url) /\ UNCHANGED otherThanFile
    \/ Tick /\ UNCHANGED otherThanFile

SourcesSpec == SourcesInit /\ [][SourcesNext]_vars

(***************************************************************************)
(* Claims about the store (checked under StoreSpec)                        *)
(***************************************************************************)
\* The identity of a stored row: the guid the source provided, else the link.
IdentityOf(row) ==
    IF guid_of[row.id] # None THEN guid_of[row.id] ELSE row.link

C4_UniqueIdentityPerSource ==
    \A r1, r2 \in rss_items :
        (IdentityOf(r1) = IdentityOf(r2) /\ r1.source = r2.source) => r1 = r2

\* C8 (retention): cleanup_old_items(days) removes exactly the items older than
\* days and the results of those items, and leaves every newer row in place.
C8_CleanupRemovesStale ==
    last_call.op = "cleanup_old_items" =>
        LET stale == {r \in last_call.items_before : Stale(r, last_call.days)} IN
        /\ rss_items = last_call.items_before \ stale
        /\ llm_results =
              {x \in last_call.results_before :
                  x.result.item_guid \notin {guid_of[r.id] : r \in stale}}


(***************************************************************************)
(* Claims about the parser (checked under ParserSpec)                      *)
(***************************************************************************)
HasAnyLabel(text) ==
    \E w \in LabelWords : \E i \in 1..(Len(text) - 1) : text[i] = w /\ text[i + 1] = ":"

\* C5 (total defaulting): for a response that contains none of the five labels the
\* parser returns score 0, relevance "Unknown" and empty explanation, key
\* information and summary.
C5_TotalDefaulting ==
    (parsed.done /\ ~HasAnyLabel(response)) =>
        /\ parsed.result.relevance_score = 0
        /\ parsed.result.relevance = <<"Unknown">>
        /\ parsed.result.explanation = <<>>
        /\ parsed.result.key_information = <<>>
        /\ parsed.result.summary = <<>>
        /\ parsed.result.llm_response = response

\* C5 witness: a response with label words and colons but no label has been parsed.
C5_Witness ==
    /\ parsed.done
    /\ ~HasAnyLabel(response)
    /\ \E i \in 1..Len(response) : response[i] \in LabelWords
    /\ \E i \in 1..Len(response) : response[i] = ":"

\* C6 (clamping): the score of every record the parser returns lies in 0..100.
C6_ScoreClamped ==
    parsed.done => (parsed.result.relevance_score >= 0 /\ parsed.result.relevance_score <= 100)

(***************************************************************************)
(* Claims about the ledger (checked under LedgerSpec)                      *)
(***************************************************************************)
\* C2 (monotone lifecycle): in every step, a query that is resolved names a
\* resolving item, and it is the same row after the step: it stays resolved
\* and its resolved_by does not change.
C2_LifecycleMonotone ==
    [][\A q \in queries :
          q.resolved => (q.resolved_by # NotResolved /\ q \in queries')]_vars

\* C2 witness: a resolved query has been offered another item, without effect.
C2_Witness ==
    \E k \in 1..Len(resolves) : \E q \in queries :
        /\ q.id = resolves[k].query_id
        /\ q.resolved
        /\ ~resolves[k].ok
        /\ q.resolved_by # [title |-> resolves[k].title, source |-> resolves[k].source]

(***************************************************************************)
(* Claims about the script (checked under Spec)                            *)
(***************************************************************************)
\* What the sources yielded during the run, in source order and then in fetch
\* order; a fetch that failed yields nothing.
Fetched == feeds[ScriptSources[1]].items \o feeds[ScriptSources[2]].items

Matching == SelectSeq(Fetched, LAMBDA it : it.content = "answers")

Ended == runs = 1 /\ pc \in {"done", "crashed"}

Evaluated(it) ==
    \E k \in 1..Len(evals) : evals[k].link = it.link /\ evals[k].source = it.source

Succeeded == {k \in 1..Len(resolves) : resolves[k].ok}

\* C1 (at-most-once resolution): when a run with one query has ended, every
\* fetched item judged as matching and every one of them evaluated, exactly one
\* resolve call has succeeded and the query is resolved by the item of that call.
C1_ExactlyOneResolveSucceeds ==
    (/\ Ended
     /\ Cardinality(queries) = 1
     /\ Len(Fetched) >= 1
     /\ Matching = Fetched
     /\ \A i \in 1..Len(Fetched) : Evaluated(Fetched[i]))
    => /\ Cardinality(Succeeded) = 1
       /\ \A k \in Succeeded : \A q \in queries :
              /\ q.resolved
              /\ q.resolved_by = [title |-> resolves[k].title, source |-> resolves[k].source]

\* C9 (end to end): when a run has ended in which each of the two sources yielded
\* one item, the one query was open while the first source was processed and
\* only the first source's item matches it, 2 items and 2 results are stored
\* and the query is resolved by the first source's item.
C9_EndToEnd ==
    (/\ Ended
     /\ \A n \in Range(ScriptSources) : feeds[n].ok /\ Len(feeds[n].items) = 1
     /\ Cardinality(queries) = 1
     /\ Matching = feeds[ScriptSources[1]].items
     /\ Evaluated(Fetched[1]))
    => /\ Cardinality(rss_items) = 2
       /\ Cardinality(llm_results) = 2
       /\ \A q \in queries :
              /\ q.resolved
              /\ q.resolved_by = [title |-> Fetched[1].title, source |-> Fetched[1].source]

\* C10 (earliest match wins): when a run has ended in which several fetched items
\* match the one query, open since the first evaluation, the query is resolved
\* by the matching item that comes first in source order and then fetch order.
C10_EarliestMatchWins ==
    (/\ Ended
     /\ Cardinality(queries) = 1
     /\ Len(Matching) >= 2
     /\ Len(evals) >= 1)
    => \A q \in queries :
          /\ q.resolved
          /\ q.resolved_by = [title |-> Matching[1].title, source |-> Matching[1].source]

(***************************************************************************)
(* Claims about the consumer (checked under ConsumerSpec)                  *)
(***************************************************************************)
\* C7 (per-source isolation): when consume_all_sources has returned from a run
\* in which the fetch of one source failed and the fetch of the other succeeded,
\* the statistics hold an error entry for the source that failed and every item
\* fetched from the other source is stored.
C7_PerSourceIsolation ==
    consumer_pc = "returned" =>
        \A a, b \in Range(ConsumerSources) :
            (a # b /\ ~feed_entries[a].ok /\ feed_entries[b].ok) =>
                /\ \E e \in source_stats : e.name = a /\ e.error
                /\ \A i \in 1..Len(feed_entries[b].entries) :
                       \E row \in rss_items :
                           /\ row.link = feed_entries[b].entries[i].link
                           /\ row.source = b

(***************************************************************************)
(* Claims about the processor (checked under ProcessorSpec)                *)
(***************************************************************************)
\* The item of a work element failed: the LLM raised or the parsing raised.
Failed(w) == w.oracle.raises \/ ~w.dated

RecordedAs(w, labels) ==
    \E row \in llm_results :
        /\ row.result.item_title = w.item.title
        /\ row.result.item_source = w.item.source
        /\ row.result.relevance \in labels

\* C11 (failure isolation per pair): when process_items has run with a loaded
\* LLM and its results are stored, every item whose LLM call or parsing failed
\* has a stored record labelled "Error", and every other item has a stored
\* record with another label.
C11_FailureRecordedAsError ==
    (processor_pc = "stored" /\ llm) =>
        \A i \in 1..Len(work) :
            IF Failed(work[i])
            THEN RecordedAs(work[i], {<<"Error">>})
            ELSE RecordedAs(work[i], {<<"Unknown">>, <<"1">>})

\* C12 (bad items are skipped): no call of store_rss_items made by
\* consume_all_sources with the batch of a source raises; the value returned is the number of rows the call added; and a single item that
\* violates no column constraint is in the store after the call.
C12_StoreNeverRaises ==
    last_call.op = "store_rss_items" =>
        /\ ~last_call.failed
        /\ last_call.ret = Cardinality(rss_items) - last_call.count_before
        /\ (last_call.single # <<>> /\ ~NotNullViolated(last_call.single[1])) =>
               Exists(rss_items, last_call.single[1])

(***************************************************************************)
(* Claims about the scheduler (checked under SchedulerFairSpec and         *)
(* SchedulerSpec)                                                          *)
(***************************************************************************)
SleepsFor(n) == IF n = 0 THEN 0 ELSE n - 1

BoundedRuns ==
    /\ (scheduler_pc # "idle" /\ max_runs.given) =>
           (run_count <= max_runs.n /\ sleeps <= SleepsFor(max_runs.n))
    /\ (scheduler_pc = "returned" /\ ~interrupted) =>
           /\ max_runs.given
           /\ run_count = max_runs.n
           /\ sleeps = SleepsFor(max_runs.n)

\* C13 (bounded scheduling): with max_runs = n the scheduler never makes more
\* than n runs, and when it is not interrupted it returns, having made exactly n
\* runs and slept n - 1 times (not at all for n = 0): between consecutive runs
\* and not after the last one; with max_runs = None it returns only when it is
\* interrupted.
C13_BoundedScheduling ==
    /\ []BoundedRuns
    /\ (scheduler_pc = "test" /\ max_runs.given) ~> (scheduler_pc = "returned")

\* C13 witness: the scheduler has returned by itself after two runs and one sleep.
C13_Witness ==
    /\ scheduler_pc = "returned"
    /\ ~interrupted
    /\ max_runs = [given |-> TRUE, n |-> 2]
    /\ run_count = 2
    /\ sleeps = 1

\* C14 (cancellation is safe): the step in which a KeyboardInterrupt arrives,
\* during a run or during the sleep, makes the scheduler return and changes no
\* stored row; after it nothing moves any more: no run starts or continues and
\* the store keeps every row it holds.
C14_CancellationSafe ==
    [][/\ (~interrupted /\ interrupted') =>
             /\ scheduler_pc \in {"test", "run", "sleep"}
             /\ scheduler_pc' = "returned"
             /\ <<rss_items, llm_results, sources, queries>>' =
                    <<rss_items, llm_results, sources, queries>>
       /\ interrupted =>
             /\ scheduler_pc = "returned"
             /\ scheduler_pc' = "returned"
             /\ run_count' = run_count
             /\ consumerVars' = consumerVars
       /\ rss_items \subseteq rss_items'
       /\ llm_results \subseteq llm_results']_vars

\* C14 witness: the scheduler was interrupted between the two sources of a run,
\* on a database that held an item, and has returned.
C14_Witness ==
    /\ interrupted
    /\ scheduler_pc = "returned"
    /\ consumer_pc = "loop"
    /\ consumer_idx = 2
    /\ rss_items # {}

\* C15 (the scheduler survives run errors): a run that ends with an error entry
\* is counted and followed by the sleep, or by the return when it was the last
\* of max_runs; and the scheduler returns only when it was interrupted or has
\* made max_runs runs.
C15_SurvivesRunErrors ==
    /\ [][(/\ scheduler_pc = "run"
            /\ run_count' = run_count + 1
            /\ \E e \in source_stats : e.error) =>
              \/ scheduler_pc' = "sleep"
              \/ /\ scheduler_pc' = "returned"
                 /\ max_runs.given
                 /\ run_count' >= max_runs.n]_vars
    /\ [](scheduler_pc = "returned" =>
             (interrupted \/ (max_runs.given /\ run_count >= max_runs.n)))

\* C15 witness: a second run is in progress after a first run that ended with an
\* error entry.
C15_Witness ==
    /\ scheduler_pc = "run"
    /\ run_count = 1
    /\ errored_runs = 1
    /\ ~interrupted

(***************************************************************************)
(* Claims about concurrent workers (checked under ConnectionsSpec)         *)
(***************************************************************************)
\* C16 (concurrent deduplication): when two workers have stored the same item,
\* each through its own connection, the store holds exactly one row of the
\* item's link and source.
C16_ConcurrentDedup ==
    (\A c \in Connections : conn_pc[c] = "done") =>
        Cardinality({r \in rss_items :
                        r.link = conn_item.link /\ r.source = conn_item.source}) = 1

ItemStored(result) ==
    \E r \in rss_items : r.title = result.item_title /\ r.source = result.item_source

RECURSIVE SumFound(_)
SumFound(entries) ==
    IF entries = {} THEN 0
    ELSE LET e == CHOOSE x \in entries : TRUE
         IN  e.items_found + SumFound(entries \ {e})

\* C20 (consistent statistics): the statistics consume_all_sources returns hold
\* an entry for every configured source, and total_items is the sum of
\* items_found over the entries without error.
C20_StatsConsistent ==
    consumer_pc = "returned" =>
        /\ \A n \in Range(ConsumerSources) : \E e \in source_stats : e.name = n
        /\ total_items = SumFound({e \in source_stats : ~e.error})

\* C21 (cross-source reposts): a store_rss_items call with one item whose
\* (link, source) is not stored yet, while a row with the same link of another
\* source is, returns 1, adds a row for the item and keeps every earlier row:
\* the other source's row never causes the item to be skipped.
C21_CrossSourceRepostsKept ==
    [][(last_call'.op = "store_rss_items" /\ Len(last_call'.single) = 1) =>
          LET item == last_call'.single[1] IN
          (/\ \E r \in rss_items : r.link = item.link /\ r.source # item.source
           /\ ~\E r \in rss_items : r.link = item.link /\ r.source = item.source)
          => /\ ~last_call'.failed
             /\ last_call'.ret = 1
             /\ \E r \in rss_items' : r.link = item.link /\ r.source = item.source
             /\ rss_items \subseteq rss_items'
             /\ Cardinality(rss_items') = Cardinality(rss_items) + 1]_vars

\* C21 witness: the last call stored an item whose link, with the same guid, was
\* already stored for another source, and both rows are in the store.
C21_Witness ==
    /\ last_call.op = "store_rss_items"
    /\ Len(last_call.single) = 1
    /\ last_call.ret = 1
    /\ \E r1, r2 \in rss_items :
          /\ r1.link = r2.link
          /\ r1.source # r2.source
          /\ r1.id < r2.id
          /\ guid_of[r1.id] = guid_of[r2.id]
          /\ r2.link = last_call.single[1].link
          /\ r2.source = last_call.single[1].source

(***************************************************************************)
(* Claims about store initialisation (checked under FileSpec)              *)
(***************************************************************************)
\* C22 (initialisation is idempotent): constructing an RSSDatabase on a new file
\* yields no items, no results and no sources, and constructing one on a file
\* that already holds tables leaves every item, result and source as it was.
C22_InitIdempotent ==
    [][last_call'.op = "__init__" =>
          IF db_tables = {}
          THEN rss_items' = {} /\ llm_results' = {} /\ sources' = {}
          ELSE rss_items' = rss_items /\ llm_results' = llm_results /\ sources' = sources]_vars

\* C22 witness: an RSSDatabase has just been constructed on a file that holds
\* items and sources.
C22_Witness ==
    /\ last_call.op = "__init__"
    /\ rss_items # {}
    /\ sources # {}

(***************************************************************************)
(* Further claims about the script (checked under Spec)                    *)
(***************************************************************************)
\* The resolve calls made for the pair of evaluation k.
ResolvesFor(k) ==
    {j \in 1..Len(resolves) :
        /\ resolves[j].query_id = evals[k].query_id
        /\ resolves[j].title = evals[k].title
        /\ resolves[j].source = evals[k].source}

\* C23 (resolution only on a positive judgment): after every evaluated pair, each
\* pair judged positive has a resolve call for its (query, item), no resolve
\* call belongs to a pair judged negative, and a resolved query was resolved by
\* an item judged positive for it.
C23_ResolveOnPositiveOnly ==
    /\ \A k \in 1..Len(evals) : evals[k].result => ResolvesFor(k) # {}
    /\ \A j \in 1..Len(resolves) :
          \E k \in 1..Len(evals) : evals[k].result /\ j \in ResolvesFor(k)
    /\ \A q \in queries : q.resolved =>
          \E k \in 1..Len(evals) :
              /\ evals[k].result
              /\ evals[k].query_id = q.id
              /\ q.resolved_by = [title |-> evals[k].title, source |-> evals[k].source]

(***************************************************************************)
(* Claims about the parser's fields (checked under ParserLinesSpec)        *)
(***************************************************************************)
TextLabels == LabelWords \ {"Relevance Score"}

\* The first line that holds the score label holds no integer after its colon,
\* and holds no other field's label.
MalformedScoreLine ==
    LET lines == LinesWith(response, "Relevance Score") IN
    /\ lines # <<>>
    /\ ~IntOf(ExtractField(response, "Relevance Score").text).ok
    /\ \A w \in TextLabels : ~Contains(lines[1], w)

\* The lines with the first line that holds "word:" replaced by the lines new.
ReplaceFirst(lines, word, new) ==
    LET k == CHOOSE i \in 1..Len(lines) :
                 Contains(lines[i], word) /\ \A j \in 1..(i - 1) : ~Contains(lines[j], word)
    IN  SubSeq(lines, 1, k - 1) \o new \o SubSeq(lines, k + 1, Len(lines))

\* The text fields the parser returns for a response.
TextFields(text) ==
    [relevance |-> FieldOr(text, "Relevance", DefaultRelevance),
     explanation |-> FieldOr(text, "Explanation", <<>>),
     key_information |-> FieldOr(text, "Key Information", <<>>),
     summary |-> FieldOr(text, "Summary", <<>>)]

\* C24 (field independence): when the score line of a response is malformed (no
\* integer after the colon) the score keeps its default 0, and relevance,
\* explanation, key information and summary are exactly what they are for the
\* same response without that line and for the same response with that line
\* well formed; the relevance is not turned into "Error".
C24_FieldIndependence ==
    (parsed.done /\ MalformedScoreLine) =>
        LET lines == Split(response, "\n")
            absent == Join(ReplaceFirst(lines, "Relevance Score", <<>>))
            wellformed == Join(ReplaceFirst(lines, "Relevance Score",
                                            <<<<"Relevance Score", ":", "5">>>>))
        IN  /\ parsed.result.relevance_score = 0
            /\ \A alt \in {absent, wellformed} :
                  /\ parsed.result.relevance = TextFields(alt).relevance
                  /\ parsed.result.explanation = TextFields(alt).explanation
                  /\ parsed.result.key_information = TextFields(alt).key_information
                  /\ parsed.result.summary = TextFields(alt).summary
            /\ parsed.result.relevance # <<"Error">>

\* C24 witness: a response whose score line is malformed and whose summary and
\* relevance lines carry values has been parsed.
C24_Witness ==
    /\ parsed.done
    /\ MalformedScoreLine
    /\ parsed.result.summary # <<>>
    /\ parsed.result.relevance # DefaultRelevance

(***************************************************************************)
(* Claims about the extraction policy (checked under ParserSpec)           *)
(***************************************************************************)
\* What follows the colon of the first "word:" on a line, to the end of the line.
Remainder(line, word) ==
    LET k == CHOOSE i \in 1..(Len(line) - 1) :
                 /\ line[i] = word /\ line[i + 1] = ":"
                 /\ \A j \in 1..(i - 1) : ~(line[j] = word /\ line[j + 1] = ":")
    IN  SubSeq(line, k + 2, Len(line))

\* The value the extraction policy gives a field: the trimmed remainder of the
\* first line that holds the field's label, the default when no line holds it.
PolicyValue(text, word, default) ==
    LET lines == LinesWith(text, word) IN
    IF lines = <<>> THEN default ELSE Strip(Remainder(lines[1], word))

\* C25 (extraction policy): every text field the parser returns is the trimmed
\* text after the colon of the field's label on the first line holding the
\* label, up to the end of that line; and the score is the integer that text
\* denotes when it denotes one in 0..100, and 0 when it denotes none.
C25_ExtractionPolicy ==
    parsed.done =>
        /\ parsed.result.relevance = PolicyValue(response, "Relevance", DefaultRelevance)
        /\ parsed.result.explanation = PolicyValue(response, "Explanation", <<>>)
        /\ parsed.result.key_information = PolicyValue(response, "Key Information", <<>>)
        /\ parsed.result.summary = PolicyValue(response, "Summary", <<>>)
        /\ LET n == IntOf(PolicyValue(response, "Relevance Score", <<>>)) IN
           /\ (n.ok /\ n.value \in 0..100) => parsed.result.relevance_score = n.value
           /\ ~n.ok => parsed.result.relevance_score = 0

(***************************************************************************)
(* Claims about scheduled mode with cleanup (checked under CliSpec)        *)
(***************************************************************************)
\* C26 (periodic retention): in scheduled mode with cleanup enabled, whenever
\* the scheduler sleeps after its k-th run, a cleanup has been made after each
\* of the runs 1..k: for each of them a cleanup call saw that run count.
C26_CleanupAfterEveryRun ==
    (cli_cleanup > 0 /\ scheduler_pc = "sleep") =>
        \A k \in 1..run_count : \E j \in 1..Len(cleanups) : cleanups[j] = k

(***************************************************************************)
(* Claims about the script's work set (checked under Spec)                 *)
(***************************************************************************)
\* C27 (the open queries are read once per run): the list of open queries a
\* later source of a run is evaluated against is the list the first source of
\* that run was evaluated against, whatever was created or resolved meanwhile:
\* the step that sets open_queries for a source after the first leaves the
\* list as it was.
C27_WorkSetReadOncePerRun ==
    [][(pc = "get_queries" /\ pc' = "pairs" /\ src_idx > 1)
          => open_queries' = open_queries]_vars

(***************************************************************************)
(* Claims about the sources table (checked under SourcesSpec)              *)
(***************************************************************************)
\* C28 (upserting a source is idempotent): every store_source_info(name, url)
\* call leaves one row per name, the row of name carrying url and the time of
\* the call; it neither removes nor changes a row of another name, and when a
\* row with this name and url was stored already, that row is still there,
\* changed in last_consumed only (its row id left aside).
C28_UpsertIdempotent ==
    [][sources' # sources =>
          /\ \A r1, r2 \in sources' : r1.name = r2.name => r1 = r2
          /\ \E name \in SourceNames, url \in Urls :
                /\ \E r \in sources' :
                      r.name = name /\ r.url = url /\ r.last_consumed = clock
                /\ \A r \in sources : r.name # name => r \in sources'
                /\ \A r \in sources' : r.name # name => r \in sources
                /\ \A r \in sources : (r.name = name /\ r.url = url) =>
                      \E n \in sources' :
                          [n EXCEPT !.id = r.id] = [r EXCEPT !.last_consumed = clock]]_vars

(***************************************************************************)
(* Claims about what a run evaluates and records (checked under Spec)      *)
(***************************************************************************)
\* C29 (deduplication gates storage, not evaluation): when a run has ended, every
\* evaluated (item, query) pair has its relevance record in the store, and a
\* query evaluated against one item of a source's feed has been evaluated
\* against every item of that feed, stored before or not.
C29_EveryPairEvaluatedAndRecorded ==
    Ended =>
        /\ \A k \in 1..Len(evals) : \E x \in llm_results : x.result = evals[k]
        /\ \A k \in 1..Len(evals) :
              \A it \in Range(feeds[evals[k].source].items) :
                  \E j \in 1..Len(evals) :
                      /\ evals[j].link = it.link
                      /\ evals[j].source = evals[k].source
                      /\ evals[j].query_id = evals[k].query_id

(***************************************************************************)
(* Claims about the per-source counters (checked under ConsumerSpec)       *)
(***************************************************************************)
\* C30 (per-source judgment counters): when consume_all_sources has returned,
\* every source that yielded items has a statistics entry with its own
\* counters, and these satisfy llm_stored <= llm_processed <= items_found.
C30_CountersLocalToSource ==
    consumer_pc = "returned" =>
        \A n \in Range(ConsumerSources) :
            (feed_entries[n].ok /\ feed_entries[n].entries # <<>>) =>
                \E e \in source_stats :
                    /\ e.name = n
                    /\ ~e.error
                    /\ e.items_found = Len(feed_entries[n].entries)
                    /\ e.llm_stored <= e.llm_processed
                    /\ e.llm_processed <= e.items_found

====
